---- MODULE Spec2Model ----
(***************************************************************************)
(* The chat server of src/src/chat.py (POST /chat, POST /clear, the        *)
(* lifespan of the shared aiohttp session) and the URL fan-out of          *)
(* src/src/url_data_extractor.py, as a state machine.                      *)
(*                                                                         *)
(* The server runs on one asyncio event loop: the code between two awaits  *)
(* is one atomic step.  A request suspends at the session lock (when it is *)
(* taken), at each Runner.run call and at asyncio.gather.  The external    *)
(* collaborators (the agent runs) answer with any of their outcomes.       *)
(***************************************************************************)
EXTENDS Integers, Sequences, FiniteSets, TLC

\* ---------------------------------------------------------------- bounds
\* Requests (of either endpoint) that arrive in one run of the server.
MaxRequests == 4
\* Session ids in use.
NumSessions == 2
\* Length of the URL list the extraction tool returns, and of the new_items
\* of one agent run, in the single-turn specification.
MaxUrls == 2
MaxItems == 2
\* Length of the URL list given to process_urls.
MaxPuUrls == 2
\* Pieces of a string given to describe_instagram_images.
MaxPieces == 3
\* imgs_limit of get_instagram_images_urls, the items of the actor's dataset,
\* and the images of one post.
MaxLimit == 2
MaxPosts == 3
MaxPostImages == 2
\* Requests of api.py that arrive in one run.
MaxConvRequests == 3

Sessions == 1..NumSessions
Requests == 1..MaxRequests
\* Enough list and lock objects for the table entries and every request.
ListIds == 1..(NumSessions + MaxRequests)
LockIds == 1..(NumSessions + MaxRequests)

\* ------------------------------------------------------------------ data
\* Python's None for an Optional[str].
None == "None"
\* Truthiness of an Optional[str]: None and "" are falsy.
Truthy(e) == e # None /\ e # ""

\* URLs, by the parts is_valid_url's pattern looks at.
Url(scheme, host, path) == [scheme |-> scheme, host |-> host, path |-> path]
ImgUrl == Url("https", "domain", "/a.jpg")
BadUrl == Url("", "domain", "/gallery")
UrlPool == {ImgUrl, BadUrl}

\* re.match of ^(http|ftp)s?://(domain|localhost|ip)(:port)?(/?|[/?]\S+)$
is_valid_url(url) ==
    /\ url.scheme \in {"http", "https", "ftp", "ftps"}
    /\ url.host \in {"domain", "localhost", "ip"}
    /\ url.path \in {"", "/", "/a.jpg", "/gallery"}

\* Sequences over S of length at most n.
SeqUpTo(S, n) == UNION {[1..k -> S] : k \in 0..n}

\* The fixed texts of chat_endpoint and the text of an agent message.
SummaryForUser == "summary_for_user"
SynthErrorMessage == "I analyzed the images, but had trouble creating a profile summary."
NoImagesMessage == "I tried fetching images from that URL, but couldn't successfully analyze any."
NoUrlsFoundMsg == "I checked the page, but couldn't find any image URLs to analyze."
AgentErrorText == "Sorry, I encountered an internal error. Could you please rephrase?"
ProcessingText == "Okay, I'm processing that..."
HelpFurtherText == "How can I help you further?"
AgentText == "agent_text"

\* One entry of a history list; turn names the request that added it.
HistItem(role, content, turn) == [role |-> role, content |-> content, turn |-> turn]

\* ImageAnalysis, with src the index of the URL it was made for.
ImageAnalysis(is_image, error, src) == [is_image |-> is_image, error |-> error, src |-> src]
Pending == [is_image |-> FALSE, error |-> "pending", src |-> 0]

\* What Runner.run(image_analyzer_agent, ...) does for one URL.
VisionOut(kind, exc, is_image, error) ==
    [kind |-> kind, exc |-> exc, is_image |-> is_image, error |-> error]
\* The exceptions a run can end with: aiohttp.ClientError, asyncio.TimeoutError,
\* and an Exception whose text holds "validation error" (pydantic), "Input
\* image may contain content that is not allowed", "Invalid image url", or
\* none of these.
Exceptions == {"ClientError", "TimeoutError", "ValidationError", "ContentPolicy",
               "InvalidImageUrl", "Exception"}
VisionRaises == {VisionOut("raise", e, FALSE, None) : e \in Exceptions}
VisionNoOutput == VisionOut("no_output", "", FALSE, None)
VisionOutputs == {VisionOut("output", "", b, e) :
                    b \in BOOLEAN, e \in {None, "", "model_error"}}
VisionOutcomes == VisionRaises \cup {VisionNoOutput} \cup VisionOutputs

\* The except clauses of analyze_single_url (chat.py).
ExceptionError(exc) ==
    CASE exc = "ClientError" -> "Network error"
      [] exc = "TimeoutError" -> "Timeout accessing URL"
      [] exc = "ValidationError" -> "Model output validation failed"
      [] OTHER -> "Analysis failed"

\* analyze_single_url without "elif analysis_result.error: is_image = False":
\* the output of the model is returned as it came.
analyze_single_url_no_fixup(i, url, out) ==
    IF ~is_valid_url(url) THEN ImageAnalysis(FALSE, "Invalid URL format", i)
    ELSE IF out.kind = "raise" THEN ImageAnalysis(FALSE, ExceptionError(out.exc), i)
    ELSE IF out.kind = "no_output"
        THEN ImageAnalysis(FALSE, "Agent run failed: No output produced", i)
    ELSE ImageAnalysis(out.is_image, out.error, i)

\* analyze_single_url of chat.py for the i-th URL, the agent run ending in out.
\* is_image is a bool, never None, so the first branch of the final if/elif
\* never applies; a pydantic model is truthy, so "unexpected empty result"
\* never applies either.
analyze_single_url(i, url, out) ==
    IF ~is_valid_url(url) THEN ImageAnalysis(FALSE, "Invalid URL format", i)
    ELSE IF out.kind = "raise" THEN ImageAnalysis(FALSE, ExceptionError(out.exc), i)
    ELSE IF out.kind = "no_output"
        THEN ImageAnalysis(FALSE, "Agent run failed: No output produced", i)
    ELSE IF Truthy(out.error) THEN ImageAnalysis(FALSE, out.error, i)
    ELSE ImageAnalysis(out.is_image, out.error, i)

\* An analyze_single_url that runs the vision agent for every URL.
VisionCalledAlways(url) == TRUE

\* The vision agent is run only for a URL that passed is_valid_url.
VisionCalled(url) == is_valid_url(url)

\* asyncio.gather returning the results in the order the tasks finished.
GatherInCompletionOrder(results, order) ==
    [k \in 1..Len(order) |-> results[order[k]]]

\* asyncio.gather: the results in the order of the awaitables passed in.
Gather(results, order) == results

\* The selection without its test: every analysis is passed on.
AllAnalyses(results) == results

\* The selection with its test inverted: the analyses that failed.
FailedAnalyses(results) ==
    SelectSeq(results, LAMBDA res : ~(res.is_image /\ ~Truthy(res.error)))

\* [res for res in all_analysis_results if res.is_image and not res.error]
SuccessfulAnalyses(results) ==
    SelectSeq(results, LAMBDA res : res.is_image /\ ~Truthy(res.error))


\* ----------------------------------------------------------- collaborators
\* result.new_items of the travel_profiler_agent run: text messages and calls
\* of get_image_urls_from_source (whose output is the list the tool returned).
MessageOutputItem(text) ==
    [type |-> "message_output_item", text |-> text, output |-> <<>>]
ToolCallItem(urls) ==
    [type |-> "tool_call_item", text |-> "", output |-> urls]
NewItemKinds(maxUrls) ==
    {MessageOutputItem(AgentText), MessageOutputItem("")}
        \cup {ToolCallItem(u) : u \in SeqUpTo(UrlPool, maxUrls)}

\* ---------------------------------------------- get_image_urls_from_source
\* Source URLs the tool is given: a direct image URL, a page, a URL that
\* fails is_valid_url, and a valid URL that is neither http nor https.
PageUrl == Url("https", "domain", "/gallery")
FtpUrl == Url("ftp", "domain", "/a.jpg")
SourcePool == {ImgUrl, PageUrl, BadUrl, FtpUrl}

\* url.lower().endswith(ext) for one of the image extensions.
HasImageExt(url) == url.path = "/a.jpg"

\* What session.get(source_url) gives: it raises (ClientError, which
\* raise_for_status raises too, a timeout, an error while parsing), or the
\* response is an image, a page with <img> tags (imgs: their src made
\* absolute), or of another content type.
Fetch(kind, imgs) == [kind |-> kind, imgs |-> imgs]
FetchFailures == {"ClientError", "TimeoutError", "Exception"}
FetchOutcomes ==
    {Fetch(k, <<>>) : k \in FetchFailures \cup {"image", "other"}}
    \cup {Fetch("html", imgs) : imgs \in SeqUpTo({ImgUrl, PageUrl, FtpUrl}, MaxUrls)}

\* The loop over the <img> tags: the valid URLs with an image extension, each
\* once, in the order of the page.
RECURSIVE ImagesOf(_, _)
ImagesOf(imgs, found) ==
    IF imgs = <<>> THEN found
    ELSE IF /\ is_valid_url(Head(imgs)) /\ HasImageExt(Head(imgs))
            /\ \A k \in 1..Len(found) : found[k] # Head(imgs)
        THEN ImagesOf(Tail(imgs), Append(found, Head(imgs)))
    ELSE ImagesOf(Tail(imgs), found)

\* The tool without its two tests of the source URL.
get_image_urls_unchecked(source_url, fetch) ==
    IF HasImageExt(source_url) THEN <<source_url>>
    ELSE IF fetch.kind \in FetchFailures THEN <<>>
    ELSE IF fetch.kind = "image" THEN <<source_url>>
    ELSE IF fetch.kind = "html" THEN ImagesOf(fetch.imgs, <<>>)
    ELSE <<>>

\* get_image_urls_from_source(source_url), the fetch ending in fetch.
get_image_urls_from_source(source_url, fetch) ==
    IF ~is_valid_url(source_url) THEN <<>>
    ELSE IF source_url.scheme \notin {"http", "https"} THEN <<>>
    ELSE IF HasImageExt(source_url) THEN <<source_url>>
    ELSE IF fetch.kind \in FetchFailures THEN <<>>
    ELSE IF fetch.kind = "image" THEN <<source_url>>
    ELSE IF fetch.kind = "html" THEN ImagesOf(fetch.imgs, <<>>)
    ELSE <<>>

\* The tool call item of a call of the tool on source_url.
ToolCallFrom(source_url, fetch) ==
    [type |-> "tool_call_item", text |-> "",
     output |-> get_image_urls_from_source(source_url, fetch),
     src |-> source_url, fetch |-> fetch.kind]

\* What Runner.run(travel_profiler_agent, ...) does: it raises, or returns a
\* result with new_items and, possibly, a truthy error attribute.
RunResult(kind, items, error) == [kind |-> kind, items |-> items, error |-> error]
RunRaises == RunResult("raise", <<>>, FALSE)
AgentResults(maxItems, maxUrls) ==
    {RunRaises} \cup {RunResult("return", it, e) :
                        it \in SeqUpTo(NewItemKinds(maxUrls), maxItems), e \in BOOLEAN}
\* Agent runs that call the tool on a source URL.
ToolRuns ==
    {RunResult("return", <<ToolCallFrom(u, f)>>, FALSE) : u \in SourcePool, f \in FetchOutcomes}

\* What Runner.run(profile_synthesizer_agent, ...) does: a UserProfile, a
\* falsy final_output, a truthy output that is no UserProfile, or it raises.
SynthOutcomes == {"profile", "no_output", "malformed", "raise"}

\* The collaborators' outcomes a specification draws from.
Env(agent, vision, synth) == [agent |-> agent, vision |-> vision, synth |-> synth]
\* Every outcome, for a single turn.
TurnEnv == Env(AgentResults(MaxItems, MaxUrls) \cup ToolRuns, VisionOutcomes, SynthOutcomes)
\* For the concurrent server: one outcome of each shape.
ServerEnv ==
    Env({RunRaises,
         RunResult("return", <<>>, FALSE),
         RunResult("return", <<>>, TRUE),
         RunResult("return", <<MessageOutputItem(AgentText)>>, FALSE),
         RunResult("return", <<ToolCallItem(<<>>)>>, FALSE),
         RunResult("return", <<ToolCallItem(<<ImgUrl>>)>>, FALSE)},
        {VisionOut("output", "", TRUE, None), VisionOut("raise", "TimeoutError", FALSE, None)},
        SynthOutcomes)

\* item.to_input_item() of each new item, as result.to_input_list() appends them.
RECURSIVE ToInputItems(_, _)
ToInputItems(items, r) ==
    IF items = <<>> THEN <<>>
    ELSE <<HistItem(IF Head(items).type = "message_output_item" THEN "assistant" ELSE "tool_call",
                    IF Head(items).text = "" THEN <<>> ELSE <<Head(items).text>>, r)>>
         \o ToInputItems(Tail(items), r)

\* The loop over result.new_items: the stripped texts joined, one per message.
RECURSIVE ResponseText(_)
ResponseText(items) ==
    IF items = <<>> THEN <<>>
    ELSE (IF Head(items).type = "message_output_item" /\ Head(items).text # ""
            THEN <<Head(items).text>> ELSE <<>>)
         \o ResponseText(Tail(items))

\* The loop over result.new_items: extracted_urls is the output of the last
\* get_image_urls_from_source call, or None (some = FALSE).
Items_Last(items) == items[Len(items)]

\* The tool call items among result.new_items.
ToolCallItems(items) == SelectSeq(items, LAMBDA it : it.type = "tool_call_item")
\* The last tool call item of new_items, as a list of at most one item: the
\* one whose output the loop over new_items leaves in extracted_urls.
LastToolCall(items) ==
    LET t == ToolCallItems(items) IN IF t = <<>> THEN <<>> ELSE <<t[Len(t)]>>

\* The loop with "if item.output" as its test: an empty list is not kept.
RECURSIVE ExtractedUrlsTruthy(_)
ExtractedUrlsTruthy(items) ==
    IF items = <<>> THEN [some |-> FALSE, urls |-> <<>>]
    ELSE IF Items_Last(items).type = "tool_call_item" /\ Items_Last(items).output # <<>>
        THEN [some |-> TRUE, urls |-> Items_Last(items).output]
    ELSE ExtractedUrlsTruthy(SubSeq(items, 1, Len(items) - 1))

RECURSIVE ExtractedUrls(_)
ExtractedUrls(items) ==
    IF items = <<>> THEN [some |-> FALSE, urls |-> <<>>]
    ELSE IF Items_Last(items).type = "tool_call_item"
        THEN [some |-> TRUE, urls |-> Items_Last(items).output]
    ELSE ExtractedUrls(SubSeq(items, 1, Len(items) - 1))


\* ------------------------------------------------------- Instagram functions
\* A string, as the list of its pieces: "/" and pieces without a "/".
\* "https://www.instagram.com/alice/" is
\* <<"https:", "/", "/", "www.instagram.com", "/", "alice", "/">>.
Slash == "/"
Names == {"alice", "a.b"}
Pieces == {Slash, "https:", "http:", "www.instagram.com", "instagram.com"} \cup Names
\* "." in piece
HasDot(piece) == piece \in {"www.instagram.com", "instagram.com", "a.b"}

\* [scheme://][www.]instagram.com/<name>[/]
ProfileUrl(scheme, host, name, slash) ==
    (IF scheme = "" THEN <<>> ELSE <<scheme, Slash, Slash>>)
        \o <<host, Slash, name>> \o (IF slash THEN <<Slash>> ELSE <<>>)
ProfileUrls ==
    {ProfileUrl(sc, h, n, sl) : sc \in {"", "https:", "http:"},
                                h \in {"www.instagram.com", "instagram.com"},
                                n \in Names, sl \in BOOLEAN}
\* The inputs of describe_instagram_images: profile URLs, and every string of
\* at most MaxPieces pieces (user names among them).
IgInputs == ProfileUrls \cup SeqUpTo(Pieces, MaxPieces)

\* str.split("/"): the parts between the slashes, empty ones included; cur is
\* the part being read.
RECURSIVE SplitAtSlash(_, _)
SplitAtSlash(str, cur) ==
    IF str = <<>> THEN <<cur>>
    ELSE IF Head(str) = Slash THEN <<cur>> \o SplitAtSlash(Tail(str), <<>>)
    ELSE SplitAtSlash(Tail(str), Append(cur, Head(str)))

\* The test of the loop over url_parts: non-empty, neither host name, no ".".
UsablePart(part) ==
    /\ part # <<>>
    /\ part # <<"www.instagram.com">>
    /\ part # <<"instagram.com">>
    /\ \A k \in 1..Len(part) : ~HasDot(part[k])

\* The loop over url_parts: the first usable part, or username as it was.
RECURSIVE FirstUsablePart(_, _)
FirstUsablePart(parts, username) ==
    IF parts = <<>> THEN username
    ELSE IF UsablePart(Head(parts)) THEN Head(parts)
    ELSE FirstUsablePart(Tail(parts), username)

\* describe_instagram_images: the username taken from username_or_url.
ExtractUsername(username_or_url) ==
    IF \E k \in 1..Len(username_or_url) : username_or_url[k] = Slash
        THEN FirstUsablePart(SplitAtSlash(username_or_url, <<>>), username_or_url)
        ELSE username_or_url

\* The list instagram_image_extractor.get_instagram_data returns: the URLs
\* written in its return statement, whatever username and limit are.
HardCodedUrlCount == 16
HardCodedUrls == [k \in 1..HardCodedUrlCount |-> [post |-> 0, img |-> k]]
\* max_images of describe_instagram_images when the caller gives none.
DefaultMaxImages == 10

\* ApifyClient(token) of the extractor module: it returns or raises.
ApifyOutcomes == {"ok", "raise"}

\* instagram_image_extractor.get_instagram_images_urls(username, imgs_limit).
extractor_get_instagram_images_urls(username, imgs_limit, apify) ==
    IF apify = "raise" THEN [kind |-> "raise", urls |-> <<>>]
    ELSE [kind |-> "return", urls |-> HardCodedUrls]

\* The items of the Apify dataset: a post without an "images" key, or with a
\* list of images.  resultsLimit is the actor's business: the code iterates
\* over whatever the dataset holds, here up to MaxPosts items.
PostItem(has_images, n) == [has_images |-> has_images, n |-> n]
PostItems == {PostItem(FALSE, 0)} \cup {PostItem(TRUE, n) : n \in 0..MaxPostImages}
ActorRuns ==
    {[kind |-> "raise", items |-> <<>>]}
        \cup {[kind |-> "return", items |-> it] : it \in SeqUpTo(PostItems, MaxPosts)}

\* The loop over iterate_items(): all_imgs.extend(item["images"]); p is the
\* number of the post.
RECURSIVE AllImgs(_, _)
AllImgs(items, p) ==
    IF items = <<>> THEN <<>>
    ELSE (IF Head(items).has_images
            THEN [k \in 1..Head(items).n |-> [post |-> p, img |-> k]] ELSE <<>>)
         \o AllImgs(Tail(items), p + 1)

\* clients/instagram/client.py: search_type of get_instagram_images_urls and
\* directUrls of get_instagram_data.
SearchType(username_or_url) ==
    IF username_or_url # <<>> /\ Head(username_or_url) \in {"https:", "http:"}
        THEN "url" ELSE "user"
DirectUrls(username, search_type) ==
    IF search_type = "user"
        THEN <<<<"https:", Slash, Slash, "www.instagram.com", Slash>> \o username>>
        ELSE <<username>>

\* clients/instagram/client.py get_instagram_images_urls(username_or_url,
\* imgs_limit), the actor run ending in run.
client_get_instagram_images_urls(username_or_url, imgs_limit, run) ==
    IF run.kind = "raise" THEN [kind |-> "raise", urls |-> <<>>]
    ELSE [kind |-> "return", urls |-> AllImgs(run.items, 1)]

\* InstagramAnalysisResult; error None when there is none.
InstagramAnalysisResult(username, image_descriptions, error) ==
    [username |-> username, image_descriptions |-> image_descriptions, error |-> error]
NoResult == InstagramAnalysisResult(<<>>, "", None)
\* URLAnalysisResult, as describe_instagram_profile builds it.
URLAnalysisResult(url, result) ==
    [url |-> url, image_descriptions |-> result.image_descriptions,
     extracted_text |-> "", error |-> result.error]

\* What "await generate_markdown_from_urls(image_urls)" does: it returns the
\* markdown text, or raises.
DescribeOutcomes == {"markdown", "raise"}

\* One call of an Instagram function: nothing called yet.
IgIdle ==
    [pc |-> "idle", fn |-> "none", input |-> <<>>, limit |-> 0, username |-> <<>>,
     urls |-> <<>>, direct_urls |-> <<>>, raised |-> "", result |-> NoResult,
     tool |-> URLAnalysisResult(<<>>, NoResult)]

\* ------------------------------------------------------------------- api.py
\* conversations[session_id]: the agent the next turn runs, and input_items.
\* The "context" entry stays the empty dict it is created as.
Conversation(current_agent, input_items) ==
    [current_agent |-> current_agent, input_items |-> input_items]
NoConversation == Conversation("none", <<>>)
ConvRequests == 1..MaxConvRequests

\* An api.py request that has not arrived.
ConvIdle ==
    [kind |-> "none", sid |-> 0, pc |-> "idle", current_agent |-> "none", input |-> <<>>,
     new_items |-> <<>>, last_agent |-> "none", created |-> FALSE, during |-> {},
     code |-> 0]

\* ------------------------------------------------------------------ state
VARIABLES
    chat_module,             \* the module body of chat.py: "not_run", "loaded", "NameError"
    http_session,            \* chat.py's global: "unbound", "none", "open" or "closed"
    conversation_histories,  \* session id -> its list object (0: no entry)
    session_locks,           \* session id -> its asyncio.Lock object (0: no entry)
    lists,                   \* list object -> its items
    locks,                   \* lock object -> [locked, waiters]
    req,                     \* request -> the handler's position and locals
    nreq,                    \* requests that have arrived
    pu,                      \* one call of process_urls (url_data_extractor.py)
    ig,                      \* one call of an Instagram function
    conversations,           \* api.py's global: session id -> its conversation data
    conv,                    \* api.py request -> the handler's position and locals
    nconv                    \* api.py requests that have arrived

vars == <<chat_module, http_session, conversation_histories, session_locks, lists, locks, req, nreq, pu,
          ig, conversations, conv, nconv>>
\* The state of api.py and of the Instagram functions.
apiVars == <<conversations, conv, nconv>>
serverVars == <<chat_module, http_session, conversation_histories, session_locks, lists, locks, req, nreq>>

\* An asyncio.Lock: _locked and the queue of its waiters.
FreeLock == [locked |-> FALSE, waiters |-> <<>>]

NoResp == [code |-> 0, session_id |-> 0, response |-> <<>>, status |-> ""]
\* A response whose session_id is not taken from the request.
ChatResponseOfNoSession(s, text, status) ==
    [code |-> 200, session_id |-> 0, response |-> text, status |-> status]
ChatResponse(s, text, status) ==
    [code |-> 200, session_id |-> s, response |-> text, status |-> status]
ClearResponse(s, status) ==
    [code |-> 200, session_id |-> s, response |-> <<>>, status |-> status]
HTTPException500 == [code |-> 500, session_id |-> 0, response |-> <<>>, status |-> ""]

\* A request that has not arrived; the locals of a handler that is running.
Idle ==
    [kind |-> "none", sid |-> 0, pc |-> "idle", lk |-> 0, cur |-> 0,
     input |-> <<>>, final |-> <<>>, urls |-> <<>>, results |-> <<>>, order |-> <<>>,
     outs |-> <<>>, text |-> <<>>, status |-> "", visionCalls |-> 0, synthCalls |-> 0,
     synthInput |-> <<>>, synthOut |-> "", tools |-> <<>>, added |-> 0, resp |-> NoResp]

\* A handler that has returned (pc "done") or raised (pc "failed"): its
\* references are gone; what stays is the record of the turn: the response,
\* the URLs extracted, what the vision agent did for each (outs), the analyses
\* gather returned, the collaborator calls made, the synthesizer's input and
\* outcome, the last tool call item of the agent run, and the number of entries
\* the turn added to the history it stored.
Ended(rec, pc, resp) ==
    [Idle EXCEPT !.kind = rec.kind, !.sid = rec.sid, !.pc = pc, !.resp = resp,
                 !.urls = rec.urls, !.results = rec.results, !.outs = rec.outs,
                 !.visionCalls = rec.visionCalls, !.synthCalls = rec.synthCalls,
                 !.synthInput = rec.synthInput, !.synthOut = rec.synthOut,
                 !.tools = rec.tools, !.added = rec.added]

\* Positions inside "async with session_locks[session_id]", the lock held.
InCritical(rec) == rec.pc \in {"agent", "gather", "synth"}
\* Positions at which the handler still uses its lock object.
UsesLock(rec) == rec.pc \in {"waiting", "woken", "agent", "gather", "synth"}

\* The objects something still refers to; the others are garbage.
LiveLists(rq, ch) ==
    {ch[s] : s \in Sessions} \cup {rq[r].cur : r \in {x \in Requests : InCritical(rq[x])}}
LiveLocks(rq, sl) ==
    {sl[s] : s \in Sessions} \cup {rq[r].lk : r \in {x \in Requests : UsesLock(rq[x])}}
Smallest(S) == CHOOSE x \in S : \A y \in S : x <= y
FreshList == Smallest(ListIds \ LiveLists(req, conversation_histories))
FreshLock == Smallest(LockIds \ LiveLocks(req, session_locks))

\* The new state; an object nothing refers to any more is freed.
Commit(rq, ch, ls, sl, lk) ==
    /\ req' = rq
    /\ conversation_histories' = ch
    /\ session_locks' = sl
    /\ lists' = [o \in ListIds |-> IF o \in LiveLists(rq, ch) THEN ls[o] ELSE <<>>]
    /\ locks' = [l \in LockIds |-> IF l \in LiveLocks(rq, sl) THEN lk[l] ELSE FreeLock]

\* Before anything has been executed: the module body of chat.py has not run
\* and its globals are not bound yet (the tables are shown empty).
Init ==
    /\ chat_module = "not_run"
    /\ http_session = "unbound"
    /\ conversation_histories = [s \in Sessions |-> 0]
    /\ session_locks = [s \in Sessions |-> 0]
    /\ lists = [o \in ListIds |-> <<>>]
    /\ locks = [l \in LockIds |-> FreeLock]
    /\ req = [r \in Requests |-> Idle]
    /\ nreq = 0
    /\ pu = [pc |-> "idle", urls |-> <<>>, results |-> <<>>, order |-> <<>>, outs |-> <<>>,
             headCalls |-> 0, visionCalls |-> 0, out |-> <<>>]
    /\ ig = IgIdle
    /\ conversations = [s \in Sessions |-> NoConversation]
    /\ conv = [r \in ConvRequests |-> ConvIdle]
    /\ nconv = 0

\* Lock.release: _locked = False, then _wake_up_first().
Release(lk, lid) == [lk EXCEPT ![lid].locked = FALSE]

\* _wake_up_first: the future of the first waiter is set; the waiter stays in
\* _waiters until it runs again.
WakeUpFirst(rq, lk, lid) ==
    IF lk[lid].waiters # <<>>
        THEN [rq EXCEPT ![Head(lk[lid].waiters)].pc = "woken"]
        ELSE rq

\* Lock.acquire returns at once only if the lock is free and nobody waits.
CanAcquireNow(lock) == ~lock.locked /\ lock.waiters = <<>>

\* ------------------------------------------------------------ chat_endpoint
\* The body of "async with", up to the first Runner.run: the history list of
\* the session is looked up (defaultdict: created when missing) and the user
\* message appended to that very list; Runner.run copies its input.
ChatBody(r, s, lid, rq, sl, lk) ==
    LET cid == IF conversation_histories[s] # 0 THEN conversation_histories[s] ELSE FreshList
        ls2 == [lists EXCEPT ![cid] = Append(@, HistItem("user", <<"user_message">>, r))]
    IN Commit([rq EXCEPT ![r] = [Idle EXCEPT !.kind = "chat", !.sid = s, !.pc = "agent",
                                             !.lk = lid, !.cur = cid, !.input = ls2[cid],
                                             !.status = "ok"]],
              [conversation_histories EXCEPT ![s] = cid], ls2, sl, lk)

\* clear_endpoint: "del session_locks[session_id]" when the id is in the table.
ClearDeletesLock(sl, s) == [sl EXCEPT ![s] = 0]

\* A clear_endpoint that tests the history with conversation_histories[id]:
\* the defaultdict makes an empty entry for an id that has none.
ClearMaterializes(ch, s) ==
    IF ch[s] # 0 THEN [ch EXCEPT ![s] = 0] ELSE [ch EXCEPT ![s] = FreshList]

\* clear_endpoint: "del conversation_histories[session_id]" when the id is in
\* the table; nothing is looked up otherwise.
ClearHistories(ch, s) == [ch EXCEPT ![s] = 0]

\* The body of clear_endpoint; it has no await, and ends releasing the lock
\* object it acquired.
ClearBody(r, s, lid, rq, sl, lk) ==
    LET found == conversation_histories[s] # 0
        lk2 == Release(lk, lid)
        rq2 == WakeUpFirst(rq, lk, lid)
        done == [rq2 EXCEPT ![r] =
                    Ended([Idle EXCEPT !.kind = "clear", !.sid = s], "done",
                          ClearResponse(s, IF found THEN "cleared"
                                           ELSE "not_found_or_already_cleared"))]
    IN IF found
        THEN Commit(done, ClearHistories(conversation_histories, s), lists,
                    ClearDeletesLock(sl, s), lk2)
        ELSE Commit(done, ClearHistories(conversation_histories, s), lists, sl, lk2)

Body(kind, r, s, lid, rq, sl, lk) ==
    IF kind = "chat" THEN ChatBody(r, s, lid, rq, sl, lk)
    ELSE ClearBody(r, s, lid, rq, sl, lk)

\* The module body of chat.py is executed.  image_analyzer_agent is built
\* (line 97) with tools=[get_image_urls_from_source], a name the file binds
\* only at line 221: the body runs to its end, and binds the three globals
\* (328-330), app and the endpoints, only when the name is bound already in
\* the namespace the body runs in (bound); otherwise, as when the file is
\* imported as it stands, it stops with a NameError and nothing is served.
ImportChat(bound) ==
    /\ chat_module = "not_run"
    /\ chat_module' = IF bound THEN "loaded" ELSE "NameError"
    /\ http_session' = IF bound THEN "none" ELSE http_session
    /\ UNCHANGED <<conversation_histories, session_locks, lists, locks, req, nreq, pu, ig, apiVars>>

\* lifespan: the shared client session is created at startup ...
Startup ==
    /\ chat_module = "loaded"
    /\ http_session = "none"
    /\ http_session' = "open"
    /\ UNCHANGED <<chat_module, conversation_histories, session_locks, lists, locks, req, nreq, pu, ig, apiVars>>

\* ... and closed at shutdown, when no request is in flight any more.
Shutdown ==
    /\ http_session = "open"
    /\ \A r \in Requests : req[r].pc \in {"idle", "done", "failed", "rejected"}
    /\ http_session' = "closed"
    /\ UNCHANGED <<chat_module, conversation_histories, session_locks, lists, locks, req, nreq, pu, ig, apiVars>>

\* A lock table with one lock for every session.
SharedLockKey(s) == 1

\* session_locks[session_id]: the lock table is keyed by the session id.
LockKey(s) == s

\* A chat_endpoint without the test of http_session.
ClientNeverMissing(kind) == FALSE

\* "if not http_session" of chat_endpoint; clear_endpoint has no such test.
ClientMissing(kind) == kind = "chat" /\ http_session = "none"

\* A request arrives.  /chat without the client session raises at once.
\* Otherwise session_locks[session_id] is looked up (defaultdict: created when
\* missing) and acquired: at once, the body following without a suspension, or
\* the handler queues on the lock.
Arrive(limit, kind, s) ==
    /\ nreq < limit
    /\ chat_module = "loaded"
    /\ http_session # "closed"
    /\ nreq' = nreq + 1
    /\ UNCHANGED <<chat_module, http_session, pu, ig, apiVars>>
    /\ LET r == nreq + 1
           lid == IF session_locks[LockKey(s)] # 0 THEN session_locks[LockKey(s)] ELSE FreshLock
           sl == [session_locks EXCEPT ![LockKey(s)] = lid]
       IN IF ClientMissing(kind)
            THEN Commit([req EXCEPT ![r] = Ended([Idle EXCEPT !.kind = kind, !.sid = s],
                                                 "rejected", HTTPException500)],
                        conversation_histories, lists, session_locks, locks)
          ELSE IF CanAcquireNow(locks[lid])
            THEN Body(kind, r, s, lid, req, sl, [locks EXCEPT ![lid].locked = TRUE])
          ELSE Commit([req EXCEPT ![r] = [Idle EXCEPT !.kind = kind, !.sid = s,
                                                      !.pc = "waiting", !.lk = lid]],
                      conversation_histories, lists, sl,
                      [locks EXCEPT ![lid].waiters = Append(@, r)])

\* A woken waiter runs again: it leaves _waiters, takes the lock, and goes on
\* into the body.
Resume(r) ==
    /\ req[r].pc = "woken"
    /\ UNCHANGED <<chat_module, http_session, nreq, pu, ig, apiVars>>
    /\ LET lid == req[r].lk
           lk == [locks EXCEPT ![lid] =
                     [locked |-> TRUE,
                      waiters |-> SelectSeq(@.waiters, LAMBDA w : w # r)]]
       IN Body(req[r].kind, r, req[r].sid, lid, req, session_locks, lk)

\* A handler that takes the lock with acquire() and releases it only at its
\* normal end: raising leaves the lock held and its waiters asleep.
FailKeepsLock(r, rec) ==
    Commit([req EXCEPT ![r] = Ended(rec, "failed", HTTPException500)],
           conversation_histories, lists, session_locks, locks)

\* The handler raises inside "async with": the lock is released, and the
\* except clause turns the error into HTTPException(500).  The history is
\* not touched.
Fail(r, rec) ==
    LET lid == rec.lk
    IN Commit([WakeUpFirst(req, locks, lid) EXCEPT ![r] = Ended(rec, "failed", HTTPException500)],
              conversation_histories, lists, session_locks, Release(locks, lid))

\* conversation_histories[session_id] = final_updated_history
StoreHistory(ch, s, id) == [ch EXCEPT ![s] = id]

\* The reply when the agent produced no text.
FallbackText(extracted) == IF extracted THEN ProcessingText ELSE HelpFurtherText

\* An end of a turn that answers with final_status as it was when the step
\* began ("analyzing", "synthesizing"), the branch's own status not set.
FinishWithStatusSoFar(r, rec, final, alias, text, status, extracted) ==
    LET s == rec.sid
        lid == rec.lk
        id == IF alias THEN rec.cur ELSE FreshList
        reply == IF text = <<>> THEN <<FallbackText(extracted)>> ELSE text
    IN Commit([WakeUpFirst(req, locks, lid) EXCEPT
                  ![r] = Ended([rec EXCEPT !.added = Len(SelectSeq(final, LAMBDA it : it.turn = r))],
                               "done", ChatResponse(s, reply, rec.status))],
              StoreHistory(conversation_histories, s, id),
              [lists EXCEPT ![id] = final],
              session_locks, Release(locks, lid))

\* The end of a turn: the fallback text when there is none, the final history
\* update, the release of the lock, the response.  final_updated_history is
\* a list of its own (to_input_list), or, with alias, current_history itself.
Finish(r, rec, final, alias, text, status, extracted) ==
    LET s == rec.sid
        lid == rec.lk
        id == IF alias THEN rec.cur ELSE FreshList
        reply == IF text = <<>> THEN <<FallbackText(extracted)>> ELSE text
    IN Commit([WakeUpFirst(req, locks, lid) EXCEPT
                  ![r] = Ended([rec EXCEPT !.added = Len(SelectSeq(final, LAMBDA it : it.turn = r))],
                               "done", ChatResponse(s, reply, status))],
              StoreHistory(conversation_histories, s, id),
              [lists EXCEPT ![id] = final],
              session_locks, Release(locks, lid))

\* Runner.run(travel_profiler_agent, ...) ends.  Raised: the turn fails.
\* Returned: the history is rebuilt from the run's input and new items, the
\* reply text and the extracted URLs are read off the new items, and the turn
\* goes on to the fan-out (one task per URL), or ends.
AgentReturns(r, res) ==
    /\ req[r].pc = "agent"
    /\ UNCHANGED <<chat_module, http_session, nreq, pu, ig, apiVars>>
    /\ LET final == req[r].input \o ToInputItems(res.items, r)
           text == ResponseText(res.items)
           ex == ExtractedUrls(res.items)
           rec == [req[r] EXCEPT !.tools = LastToolCall(res.items)]
       IN IF res.kind = "raise" THEN Fail(r, req[r])
          ELSE IF ex.some /\ ex.urls # <<>>
            THEN Commit([req EXCEPT ![r] = [rec EXCEPT !.pc = "gather", !.final = final,
                                               !.text = text, !.status = "analyzing",
                                               !.urls = ex.urls,
                                               !.results = [i \in 1..Len(ex.urls) |-> Pending],
                                               !.outs = [i \in 1..Len(ex.urls) |-> "pending"]]],
                        conversation_histories, lists, session_locks, locks)
          ELSE IF ex.some
            THEN Finish(r, rec, Append(final, HistItem("assistant", <<NoUrlsFoundMsg>>, r)), FALSE,
                        <<NoUrlsFoundMsg>>, "no_urls_found", TRUE)
          ELSE IF res.error
            THEN Finish(r, rec,
                        Append(lists[req[r].cur], HistItem("assistant", <<AgentErrorText>>, r)),
                        TRUE, <<AgentErrorText>>, "agent_error", FALSE)
          ELSE Finish(r, rec, final, FALSE, text, "ok", FALSE)

\* The first step of the i-th analyze_single_url task.  The tasks are made by
\* asyncio.gather in the order of the URLs and the event loop starts them in
\* that order.  A URL that fails is_valid_url: the task returns at once.
\* Otherwise Runner.run(image_analyzer_agent, ...) is called and the task is
\* suspended in it (outs[i] "running") until the run ends.
TaskStarts(r, i) ==
    /\ req[r].pc = "gather"
    /\ i \in 1..Len(req[r].urls)
    /\ req[r].outs[i] = "pending"
    /\ \A j \in 1..(i - 1) : req[r].outs[j] # "pending"
    /\ UNCHANGED <<chat_module, http_session, nreq, pu, ig, apiVars>>
    /\ Commit([req EXCEPT ![r] =
                  IF VisionCalled(req[r].urls[i])
                    THEN [@ EXCEPT !.outs[i] = "running", !.visionCalls = @ + 1]
                    ELSE [@ EXCEPT !.results[i] =
                                       analyze_single_url(i, req[r].urls[i], VisionNoOutput),
                                   !.order = Append(@, i),
                                   !.outs[i] = "not_run"]],
              conversation_histories, lists, session_locks, locks)

\* The agent run of the i-th task ends, in any order among the runs: the task
\* builds its result and ends.
TaskCompletes(r, i, out) ==
    /\ req[r].pc = "gather"
    /\ i \in 1..Len(req[r].urls)
    /\ req[r].outs[i] = "running"
    /\ UNCHANGED <<chat_module, http_session, nreq, pu, ig, apiVars>>
    /\ Commit([req EXCEPT ![r] =
                  [@ EXCEPT !.results[i] = analyze_single_url(i, req[r].urls[i], out),
                            !.order = Append(@, i),
                            !.outs[i] = out.kind]],
              conversation_histories, lists, session_locks, locks)

\* A gate like asyncio.wait(return_when=FIRST_COMPLETED): one task has ended.
FirstResolved(results) == \E i \in 1..Len(results) : results[i] # Pending

\* asyncio.gather returns when every task has ended.
AllResolved(results) == \A i \in 1..Len(results) : results[i] # Pending

\* asyncio.gather returns: the successful analyses are selected; with none
\* the turn ends with the clarification message, otherwise the synthesizer
\* is run once on them.
GatherReturns(r) ==
    /\ req[r].pc = "gather"
    /\ AllResolved(req[r].results)
    /\ UNCHANGED <<chat_module, http_session, nreq, pu, ig, apiVars>>
    /\ LET all == Gather(req[r].results, req[r].order)
           successful == SuccessfulAnalyses(all)
       IN IF successful # <<>>
            THEN Commit([req EXCEPT ![r] = [@ EXCEPT !.pc = "synth", !.status = "synthesizing",
                                               !.results = all,
                                               !.synthCalls = @ + 1,
                                               !.synthInput = successful]],
                        conversation_histories, lists, session_locks, locks)
          ELSE Finish(r, [req[r] EXCEPT !.results = all],
                      Append(req[r].final, HistItem("assistant", <<NoImagesMessage>>, r)),
                      FALSE, <<NoImagesMessage>>, "analysis_failed", TRUE)

\* Runner.run(profile_synthesizer_agent, ...) ends.  A UserProfile: the tool
\* message and the summary are appended.  A falsy output: the apology is.  A
\* raised error, or an output without .summary, leaves through the except
\* clause.
SynthReturns(r, out) ==
    /\ req[r].pc = "synth"
    /\ UNCHANGED <<chat_module, http_session, nreq, pu, ig, apiVars>>
    /\ IF out = "profile"
         THEN Finish(r, [req[r] EXCEPT !.synthOut = out], req[r].final
                          \o <<HistItem("tool", <<"user_profile_json">>, r),
                               HistItem("assistant", <<SummaryForUser>>, r)>>,
                     FALSE, <<SummaryForUser>>, "profile_generated", TRUE)
       ELSE IF out = "no_output"
         THEN Finish(r, [req[r] EXCEPT !.synthOut = out],
                     Append(req[r].final, HistItem("assistant", <<SynthErrorMessage>>, r)),
                     FALSE, <<SynthErrorMessage>>, "synthesis_failed", TRUE)
       ELSE Fail(r, [req[r] EXCEPT !.synthOut = out])

\* The server, with at most limit requests and the collaborators of env.
ServerNext(limit, env) ==
    \/ \E bound \in BOOLEAN : ImportChat(bound)
    \/ Startup
    \/ Shutdown
    \/ \E kind \in {"chat", "clear"}, s \in Sessions : Arrive(limit, kind, s)
    \/ \E r \in 1..nreq : Resume(r)
    \/ \E r \in 1..nreq : req[r].pc = "agent" /\ \E res \in env.agent : AgentReturns(r, res)
    \/ \E r \in 1..nreq : req[r].pc = "gather" /\
            \E i \in 1..Len(req[r].urls) : TaskStarts(r, i)
    \/ \E r \in 1..nreq : req[r].pc = "gather" /\
            \E i \in 1..Len(req[r].urls), out \in env.vision : TaskCompletes(r, i, out)
    \/ \E r \in 1..nreq : GatherReturns(r)
    \/ \E r \in 1..nreq, out \in env.synth : SynthReturns(r, out)

Next == ServerNext(MaxRequests, ServerEnv)
Spec == Init /\ [][Next]_vars


\* ------------------------------------------- url_data_extractor.process_urls
\* What session.head(url) does: a response with an image content type or
\* another one, or it raises.
HeadOutcomes == {"image", "other"} \cup Exceptions

\* The except clauses of analyze_single_url (url_data_extractor.py).
ude_ExceptionError(exc) ==
    CASE exc = "ClientError" -> "Network error"
      [] exc = "TimeoutError" -> "Timeout accessing URL"
      [] exc \in {"ContentPolicy", "InvalidImageUrl"} -> "Analysis error"
      [] OTHER -> "Analysis failed"

\* analyze_single_url of url_data_extractor.py for the i-th URL: the URL test,
\* the HEAD request and its content type, then the agent run, whose output
\* gets is_image = True and error = None; final_output_as of no output is
\* None, and setting is_image on it raises into "Analysis failed".
ude_analyze_single_url(i, url, head, out) ==
    IF ~is_valid_url(url) THEN ImageAnalysis(FALSE, "Invalid URL format", i)
    ELSE IF head \in Exceptions
        THEN ImageAnalysis(FALSE, ude_ExceptionError(head), i)
    ELSE IF head # "image"
        THEN ImageAnalysis(FALSE, "URL content type is not an image", i)
    ELSE IF out.kind = "raise" THEN ImageAnalysis(FALSE, ude_ExceptionError(out.exc), i)
    ELSE IF out.kind = "no_output" THEN ImageAnalysis(FALSE, "Analysis failed", i)
    ELSE ImageAnalysis(TRUE, None, i)

\* process_urls(urls): an empty list returns at once; otherwise one task per
\* URL is handed to asyncio.gather.
PuStart(urls) ==
    /\ pu.pc = "idle"
    /\ pu' = IF urls = <<>>
               THEN [pu EXCEPT !.pc = "done"]
               ELSE [pu EXCEPT !.pc = "gather", !.urls = urls,
                               !.results = [i \in 1..Len(urls) |-> Pending],
                               !.outs = [i \in 1..Len(urls) |-> "pending"]]
    /\ UNCHANGED <<serverVars, ig, apiVars>>

\* The first step of the i-th analyze_single_url task of process_urls, the
\* tasks starting in the order of the URLs.  A URL that fails is_valid_url: the
\* task returns at once.  Otherwise session.head(url) is called and the task
\* is suspended in it (outs[i] "head").
PuTaskStarts(i) ==
    /\ pu.pc = "gather"
    /\ i \in 1..Len(pu.urls)
    /\ pu.outs[i] = "pending"
    /\ \A j \in 1..(i - 1) : pu.outs[j] # "pending"
    /\ pu' = IF is_valid_url(pu.urls[i])
               THEN [pu EXCEPT !.outs[i] = "head", !.headCalls = @ + 1]
               ELSE [pu EXCEPT !.results[i] =
                                   ude_analyze_single_url(i, pu.urls[i], "other", VisionNoOutput),
                               !.order = Append(@, i),
                               !.outs[i] = "not_run"]
    /\ UNCHANGED <<serverVars, ig, apiVars>>

\* The HEAD request of the i-th task ends.  An image content type: the vision
\* agent is run and the task is suspended in Runner.run (outs[i] "running").
\* Another content type, or an exception: the task ends with a failure.
PuHeadReturns(i, head) ==
    /\ pu.pc = "gather"
    /\ i \in 1..Len(pu.urls)
    /\ pu.outs[i] = "head"
    /\ pu' = IF head = "image"
               THEN [pu EXCEPT !.outs[i] = "running", !.visionCalls = @ + 1]
               ELSE [pu EXCEPT !.results[i] =
                                   ude_analyze_single_url(i, pu.urls[i], head, VisionNoOutput),
                               !.order = Append(@, i),
                               !.outs[i] = head]
    /\ UNCHANGED <<serverVars, ig, apiVars>>

\* The agent run of the i-th task ends: the task builds its result and ends.
PuTaskCompletes(i, out) ==
    /\ pu.pc = "gather"
    /\ i \in 1..Len(pu.urls)
    /\ pu.outs[i] = "running"
    /\ pu' = [pu EXCEPT !.results[i] = ude_analyze_single_url(i, pu.urls[i], "image", out),
                        !.order = Append(@, i),
                        !.outs[i] = out.kind]
    /\ UNCHANGED <<serverVars, ig, apiVars>>

\* asyncio.gather returns; process_urls returns the list.
PuReturn ==
    /\ pu.pc = "gather"
    /\ AllResolved(pu.results)
    /\ pu' = [pu EXCEPT !.pc = "done", !.out = Gather(pu.results, pu.order)]
    /\ UNCHANGED <<serverVars, ig, apiVars>>

NoRequestYet == nreq = 0 /\ http_session \in {"unbound", "none"}

\* One /chat turn or one /clear with every outcome of the collaborators, or
\* one call of process_urls.
TurnNext ==
    \/ \E bound \in BOOLEAN : pu.pc = "idle" /\ ImportChat(bound)
    \/ pu.pc = "idle" /\ Startup
    \/ Shutdown
    \/ \E kind \in {"chat", "clear"}, s \in Sessions : pu.pc = "idle" /\ Arrive(1, kind, s)
    \/ \E r \in 1..nreq : req[r].pc = "agent" /\ \E res \in TurnEnv.agent : AgentReturns(r, res)
    \/ \E r \in 1..nreq : req[r].pc = "gather" /\
            \E i \in 1..Len(req[r].urls) : TaskStarts(r, i)
    \/ \E r \in 1..nreq : req[r].pc = "gather" /\
            \E i \in 1..Len(req[r].urls), out \in TurnEnv.vision : TaskCompletes(r, i, out)
    \/ \E r \in 1..nreq : GatherReturns(r)
    \/ \E r \in 1..nreq, out \in TurnEnv.synth : SynthReturns(r, out)
    \/ \E urls \in SeqUpTo(UrlPool, MaxPuUrls) : NoRequestYet /\ PuStart(urls)
    \/ \E i \in 1..Len(pu.urls) : PuTaskStarts(i)
    \/ \E i \in 1..Len(pu.urls), head \in HeadOutcomes : PuHeadReturns(i, head)
    \/ \E i \in 1..Len(pu.urls), out \in VisionOutcomes : PuTaskCompletes(i, out)
    \/ PuReturn

SpecTurn == Init /\ [][TurnNext]_vars


\* ------------------------------------------ instagram_image_extractor, client
\* The except clause of describe_instagram_images sets error_message and falls
\* through to the final return, which reads image_descriptions_list: a name
\* that is bound only after generate_markdown_from_urls has returned.
FinalReturnRaises(rec) ==
    [rec EXCEPT !.pc = "raised", !.raised = "UnboundLocalError"]

\* describe_instagram_images(username_or_url, max_images) up to its await, or
\* the tool describe_instagram_profile(username_or_url), which calls it with
\* the default max_images.  The username is extracted and the image URLs are
\* fetched; an error there, and the InstagramAnalysisResult built with a list
\* as image_descriptions when no URL came back, go to the except clause.
DescribeCall(username_or_url, max_images, via_tool, apify) ==
    /\ ig.pc = "idle"
    /\ via_tool => max_images = DefaultMaxImages
    /\ LET username == ExtractUsername(username_or_url)
           fetch == extractor_get_instagram_images_urls(username, max_images, apify)
           rec == [ig EXCEPT !.fn = IF via_tool THEN "describe_instagram_profile"
                                    ELSE "describe_instagram_images",
                             !.input = username_or_url, !.limit = max_images,
                             !.username = username, !.urls = fetch.urls]
       IN ig' = IF fetch.kind = "raise" \/ fetch.urls = <<>>
                  THEN FinalReturnRaises(rec)
                  ELSE [rec EXCEPT !.pc = "describing"]
    /\ UNCHANGED <<serverVars, pu, apiVars>>

\* generate_markdown_from_urls ends: the result is returned, and the tool
\* turns it into a URLAnalysisResult; or the except clause is entered.
DescribeReturns(desc) ==
    /\ ig.pc = "describing"
    /\ ig' = IF desc = "raise" THEN FinalReturnRaises(ig)
             ELSE LET result == InstagramAnalysisResult(ig.username, "markdown", None)
                  IN [ig EXCEPT !.pc = "returned", !.result = result,
                                !.tool = IF ig.fn = "describe_instagram_profile"
                                           THEN URLAnalysisResult(ig.input, result) ELSE @]
    /\ UNCHANGED <<serverVars, pu, apiVars>>

\* A call of instagram_image_extractor.get_instagram_images_urls.
ExtractorFetch(username, imgs_limit, apify) ==
    /\ ig.pc = "idle"
    /\ LET fetch == extractor_get_instagram_images_urls(username, imgs_limit, apify)
       IN ig' = [ig EXCEPT !.pc = IF fetch.kind = "raise" THEN "raised" ELSE "fetched",
                           !.fn = "extractor.get_instagram_images_urls",
                           !.input = username, !.limit = imgs_limit, !.username = username,
                           !.urls = fetch.urls,
                           !.raised = IF fetch.kind = "raise" THEN "ApifyClient" ELSE ""]
    /\ UNCHANGED <<serverVars, pu, apiVars>>

\* A call of clients/instagram/client.py get_instagram_images_urls.
ClientFetch(username_or_url, imgs_limit, run) ==
    /\ ig.pc = "idle"
    /\ LET fetch == client_get_instagram_images_urls(username_or_url, imgs_limit, run)
       IN ig' = [ig EXCEPT !.pc = IF fetch.kind = "raise" THEN "raised" ELSE "fetched",
                           !.fn = "client.get_instagram_images_urls",
                           !.input = username_or_url, !.limit = imgs_limit,
                           !.username = username_or_url,
                           !.direct_urls = DirectUrls(username_or_url,
                                                      SearchType(username_or_url)),
                           !.urls = fetch.urls,
                           !.raised = IF fetch.kind = "raise" THEN "actor" ELSE ""]
    /\ UNCHANGED <<serverVars, pu, apiVars>>

\* The user names and profile URLs given to the two get_instagram_images_urls.
FetchInputs == {<<n>> : n \in Names} \cup ProfileUrls
\* max_images / imgs_limit: small values, and the default.
Limits == (0..MaxLimit) \cup {DefaultMaxImages}

\* One call of an Instagram function, with every input and outcome.
InstaNext ==
    \/ \E u \in IgInputs, m \in Limits, t \in BOOLEAN, a \in ApifyOutcomes :
            DescribeCall(u, m, t, a)
    \/ \E d \in DescribeOutcomes : DescribeReturns(d)
    \/ \E u \in FetchInputs, m \in Limits, a \in ApifyOutcomes : ExtractorFetch(u, m, a)
    \/ \E u \in FetchInputs, m \in Limits, run \in ActorRuns : ClientFetch(u, m, run)

SpecInsta == Init /\ [][InstaNext]_vars


\* ------------------------------------------------------------------- api.py
\* The new_items of a run, and what to_input_list() makes of them.
RunItem(type, agent) == [type |-> type, agent |-> agent]
ConvRun(kind, last_agent, new_items) ==
    [kind |-> kind, last_agent |-> last_agent, new_items |-> new_items]
\* Runner.run(current_agent, input_items, context): it raises, or returns with
\* the agent that finished the run.  TriageAgent has its tool and the handoff
\* to PlanningAgent; PlanningAgent has no handoff.
ConvRuns(current_agent) ==
    {ConvRun("raise", current_agent, <<>>),
     ConvRun("return", current_agent, <<RunItem("message_output_item", current_agent)>>)}
    \cup (IF current_agent = "TriageAgent"
            THEN {ConvRun("return", "TriageAgent",
                          <<RunItem("tool_call_item", "TriageAgent"),
                            RunItem("tool_call_output_item", "TriageAgent"),
                            RunItem("message_output_item", "TriageAgent")>>),
                  ConvRun("return", "PlanningAgent",
                          <<RunItem("handoff_output_item", "TriageAgent"),
                            RunItem("message_output_item", "PlanningAgent")>>)}
            ELSE {})

\* result.to_input_list(): the input the run was given, then its new items.
ConvToInputList(input, new_items, r) ==
    input \o [k \in 1..Len(new_items) |->
                HistItem(new_items[k].type, <<new_items[k].agent>>, r)]

\* conversations[session_id] = {"current_agent": ..., "input_items": ...}
SaveConversation(cs, s, last_agent, input_items) ==
    [cs EXCEPT ![s] = Conversation(last_agent, input_items)]

\* del conversations[session_id]
DeleteEntry(cs, s) == [cs EXCEPT ![s] = NoConversation]

\* POST /conversation arrives: the session id is the one given, or a new uuid
\* (an id not in the store); the conversation data is looked up, or created
\* with TriageAgent and no items; the user message is appended to the stored
\* input_items; Runner.run is called (it copies its input) and awaited.
PostArrive(s, given) ==
    /\ nconv < MaxConvRequests
    /\ given \/ conversations[s] = NoConversation
    /\ LET r == nconv + 1
           created == conversations[s] = NoConversation
           data == IF created THEN Conversation("TriageAgent", <<>>) ELSE conversations[s]
           items == Append(data.input_items, HistItem("user", <<"message">>, r))
       IN /\ conversations' = [conversations EXCEPT ![s] = Conversation(data.current_agent, items)]
          /\ conv' = [conv EXCEPT ![r] =
                        [ConvIdle EXCEPT !.kind = "post", !.sid = s, !.pc = "run",
                                         !.current_agent = data.current_agent,
                                         !.input = items, !.created = created,
                                         !.during = {q \in ConvRequests :
                                                        conv[q].pc = "run" /\ conv[q].sid = s}]]
    /\ nconv' = nconv + 1
    /\ UNCHANGED <<serverVars, pu, ig>>

\* Runner.run ends.  Raised: HTTPException(500), the store as it is.
\* Returned: the response is built from the new items and the conversation
\* data of the session is replaced.
RunReturns(r, res) ==
    /\ conv[r].pc = "run"
    /\ IF res.kind = "raise"
         THEN /\ conv' = [conv EXCEPT ![r].pc = "failed", ![r].code = 500]
              /\ UNCHANGED conversations
         ELSE /\ conv' = [conv EXCEPT ![r].pc = "done", ![r].code = 200,
                                      ![r].new_items = res.new_items,
                                      ![r].last_agent = res.last_agent]
              /\ conversations' =
                    SaveConversation(conversations, conv[r].sid, res.last_agent,
                                     ConvToInputList(conv[r].input, res.new_items, r))
    /\ UNCHANGED <<serverVars, pu, ig, nconv>>

\* DELETE /conversation/{session_id}: the entry is deleted, or 404.
DeleteConversation(s) ==
    /\ nconv < MaxConvRequests
    /\ LET r == nconv + 1
           found == conversations[s] # NoConversation
       IN /\ conv' = [conv EXCEPT ![r] =
                        [ConvIdle EXCEPT !.kind = "delete", !.sid = s,
                                         !.pc = IF found THEN "deleted" ELSE "not_found",
                                         !.code = IF found THEN 200 ELSE 404]]
          /\ conversations' = IF found THEN DeleteEntry(conversations, s) ELSE conversations
    /\ nconv' = nconv + 1
    /\ UNCHANGED <<serverVars, pu, ig>>

ApiNext ==
    \/ \E s \in Sessions, given \in BOOLEAN : PostArrive(s, given)
    \/ \E r \in 1..nconv : conv[r].pc = "run" /\
            \E res \in ConvRuns(conv[r].current_agent) : RunReturns(r, res)
    \/ \E s \in Sessions : DeleteConversation(s)

SpecApi == Init /\ [][ApiNext]_vars


\* ----------------------------------------------------------------- claims
\* The history stored for session s (empty when the session has no entry).
History(s) == IF conversation_histories[s] = 0 THEN <<>> ELSE lists[conversation_histories[s]]
\* The entries request r added that are in the history stored for its session.
OwnItems(r) == SelectSeq(History(req[r].sid), LAMBDA it : it.turn = r)
\* A /chat turn that has returned its response.
Responded(r) == req[r].kind = "chat" /\ req[r].pc = "done"

\* C1: for every session id, at most one request is inside that session's
\* locked critical section at any time, whatever the interleaving of /chat and
\* /clear requests.
C1_MutualExclusion ==
    \A s \in Sessions :
        Cardinality({r \in Requests : InCritical(req[r]) /\ req[r].sid = s}) <= 1


\* ------------------------------------------------- sessions and their locks
\* The agent run of a turn without tool call: it raises, or replies.
DirectEnv ==
    Env({RunRaises, RunResult("return", <<MessageOutputItem(AgentText)>>, FALSE)}, {}, {})

\* The server with turns that reply directly: requests of several sessions
\* arriving, queueing on the session locks, and ending.
LockNext ==
    \/ \E bound \in BOOLEAN : ImportChat(bound)
    \/ Startup
    \/ Shutdown
    \/ \E kind \in {"chat", "clear"}, s \in Sessions : Arrive(MaxRequests, kind, s)
    \/ \E r \in 1..nreq : Resume(r)
    \/ \E r \in 1..nreq : req[r].pc = "agent" /\ \E res \in DirectEnv.agent : AgentReturns(r, res)

SpecLock == Init /\ [][LockNext]_vars

\* The event loop runs a woken waiter.  Nothing in the code makes an agent
\* run end: whether each run returns or raises is left open here.
LockFairness == \A r \in Requests : WF_vars(Resume(r))
SpecLockFair == SpecLock /\ LockFairness

\* The entries of h that request r added with the assistant role.
AssistantTurns(h, r) == SelectSeq(h, LAMBDA it : it.turn = r /\ it.role = "assistant")
\* The positions in h of the entries request r added.
PositionsOf(h, r) == {k \in 1..Len(h) : h[k].turn = r}

\* C2: when two /chat requests of one session both returned a response, the
\* stored history holds the whole contribution of each (every entry the turn
\* added), the contribution of the earlier request before that of the later.
C2_BothContributionsWhole ==
    \A r1, r2 \in Requests :
        (r1 < r2 /\ Responded(r1) /\ Responded(r2) /\ req[r1].sid = req[r2].sid
            /\ OwnItems(r1) # <<>> /\ OwnItems(r2) # <<>>)
        => LET h == History(req[r1].sid)
           IN /\ Len(OwnItems(r1)) = req[r1].added
              /\ Len(OwnItems(r2)) = req[r2].added
              /\ \A a \in PositionsOf(h, r1), b \in PositionsOf(h, r2) : a < b

\* C3: when a turn fails with an unexpected error (the generic 500 response),
\* the stored state of the session is what it was before the turn began: the
\* history without the turn's user message, and no entry for a session that
\* had none.
C3_FailureRestoresSession ==
    [][\A r \in Requests :
        (InCritical(req[r]) /\ req'[r].pc = "failed")
        => /\ History(req[r].sid)' = SubSeq(req[r].input, 1, Len(req[r].input) - 1)
           /\ Len(req[r].input) = 1 => conversation_histories'[req[r].sid] = 0]_vars

\* C8: once the synthesizer was called, the turn completes with a response:
\* profile_generated, or, when the synthesis failed (no output, malformed
\* output, a raised error), synthesis_failed with the apology as reply and as
\* last entry of the stored history; the synthesizer is called once.
C8_SynthesisFailureReported ==
    [][\A r \in Requests :
        (req[r].pc = "synth" /\ req'[r].pc # "synth")
        => /\ req'[r].pc = "done"
           /\ req'[r].synthCalls = 1
           /\ \/ req'[r].resp.status = "profile_generated"
              \/ /\ req'[r].resp.status = "synthesis_failed"
                 /\ req'[r].resp.response = <<SynthErrorMessage>>
                 /\ History(req[r].sid)'[Len(History(req[r].sid)')]
                        = HistItem("assistant", <<SynthErrorMessage>>, r)]_vars

\* A /clear of session s has removed its history.
Cleared(s) ==
    \E r \in Requests : /\ req[r].kind = "clear" /\ req[r].sid = s
                        /\ req[r].resp.status = "cleared"
\* The /chat turns of session s that returned a response.
ProcessedTurns(s) == {r \in Requests : Responded(r) /\ req[r].sid = s}

\* C9: for a session that is not cleared, the stored history holds at least
\* two entries per processed turn, and its length never decreases.
C9_HistoryGrowsByTwo ==
    [][\A s \in Sessions :
        ~Cleared(s)'
        => /\ Len(History(s)') >= 2 * Cardinality(ProcessedTurns(s)')
           /\ Len(History(s)') >= Len(History(s))]_vars

\* C10: a /chat turn that returns a response has added exactly one assistant
\* turn to the stored history, and its content is the reply returned.
C10_OneAssistantTurn ==
    [][\A r \in Requests :
        (req[r].pc # "done" /\ req'[r].pc = "done" /\ req'[r].kind = "chat")
        => /\ Len(AssistantTurns(History(req[r].sid)', r)) = 1
           /\ AssistantTurns(History(req[r].sid)', r)[1].content = req'[r].resp.response]_vars


\* The fan-out of request r is over: asyncio.gather has returned.
FanOutOver(rec) == rec.kind = "chat" /\ rec.urls # <<>> /\ rec.pc \in {"synth", "done", "failed"}
\* An analysis counts as successful: is_image true and no error.
IsSuccess(res) == res.is_image /\ res.error \in {None, ""}
\* The i-th of the results is an analysis made for the i-th URL.
InInputOrder(results, urls) ==
    /\ Len(results) = Len(urls)
    /\ \A i \in 1..Len(urls) : results[i].error # "pending" /\ results[i].src = i

\* C4: the fan-out over k URLs yields exactly k results, the i-th made for
\* the i-th URL, whatever the outcome of each call and whatever the order in
\* which the calls complete, in chat.py and in process_urls.
C4_FanOutKeepsInputOrder ==
    /\ \A r \in Requests : FanOutOver(req[r]) => InInputOrder(req[r].results, req[r].urls)
    /\ pu.pc = "done" => InInputOrder(pu.out, pu.urls)

\* Two calls completed in the reverse of the input order, one a captured
\* failure, and the fan-out returned.
C4_Witness ==
    \E r \in Requests :
        /\ req[r].pc = "synth" /\ req[r].order = <<2, 1>>
        /\ \E i \in 1..2 : ~IsSuccess(req[r].results[i])

\* C5: a failed analysis of one URL never fails the turn: the turn goes on
\* past the fan-out, every URL has its result, and the result of a URL that
\* was not analysed with success has is_image false and a non-empty error.
C5_FailureCapturedWithReason ==
    /\ \A r \in Requests :
        /\ ~(req[r].pc = "failed" /\ req[r].urls # <<>> /\ req[r].synthCalls = 0)
        /\ FanOutOver(req[r]) =>
            /\ Len(req[r].results) = Len(req[r].urls)
            /\ \A i \in 1..Len(req[r].results) :
                 ~IsSuccess(req[r].results[i]) =>
                    /\ req[r].results[i].is_image = FALSE
                    /\ req[r].results[i].error \notin {None, ""}
    /\ pu.pc = "done" =>
            /\ Len(pu.out) = Len(pu.urls)
            /\ \A i \in 1..Len(pu.out) :
                 ~IsSuccess(pu.out[i]) =>
                    pu.out[i].is_image = FALSE /\ pu.out[i].error \notin {None, ""}

\* C6: a turn whose extraction returned URLs and whose analyses are all
\* unsuccessful ends without a call of the synthesizer, with status
\* analysis_failed and the clarification message as reply and as the
\* assistant entry appended to the stored history.
C6_NoSuccessNoSynthesis ==
    [][\A r \in Requests :
        (/\ req[r].pc = "gather" /\ req'[r].pc # "gather"
         /\ \A i \in 1..Len(req[r].results) : ~IsSuccess(req[r].results[i]))
        => /\ req'[r].pc = "done"
           /\ req'[r].synthCalls = 0
           /\ req'[r].resp = ChatResponse(req[r].sid, <<NoImagesMessage>>, "analysis_failed")
           /\ History(req[r].sid)' =
                Append(req[r].final, HistItem("assistant", <<NoImagesMessage>>, r))]_vars

\* Two URLs were extracted, the vision agent was run, and no analysis succeeded.
C6_Witness ==
    \E r \in Requests :
        /\ req[r].pc = "done" /\ Len(req[r].urls) = 2 /\ req[r].visionCalls >= 1
        /\ req[r].resp.status = "analysis_failed"
        /\ \A i \in 1..2 : ~IsSuccess(req[r].results[i])

\* C7: while the synthesizer runs, and after, every analysis of the turn has
\* resolved: none of the k calls is pending when the synthesis starts.
C7_SynthesisAfterAllAnalyses ==
    \A r \in Requests :
        req[r].synthCalls > 0 =>
            /\ Len(req[r].outs) = Len(req[r].urls)
            /\ \A i \in 1..Len(req[r].urls) :
                 req[r].outs[i] # "pending" /\ req[r].results[i].error # "pending"

\* The synthesizer is running after two analyses, one of them failed.
C7_Witness ==
    \E r \in Requests :
        /\ req[r].pc = "synth" /\ req[r].synthCalls = 1 /\ Len(req[r].urls) = 2
        /\ req[r].visionCalls = 2
        /\ \E i \in 1..2 : req[r].outs[i] = "raise"


\* Request r is a /clear that removed a history, and no request for its
\* session has arrived since.
LastWasCleared(r) ==
    /\ req[r].kind = "clear" /\ req[r].resp.status = "cleared"
    /\ \A q \in Requests : q > r => req[q].sid # req[r].sid

\* C11: /clear of a session without stored history answers "not found" without
\* an error; /clear of a session with stored history answers "cleared" and
\* removes it, and the history stays removed until the next request for the
\* session arrives; a /chat turn starts from the stored history and its own
\* user message, so the turn after the /clear starts from its own entries only.
C11_ClearThenFreshHistory ==
    [][\A r \in Requests :
        /\ (req[r].pc # "done" /\ req'[r].pc = "done" /\ req'[r].kind = "clear")
            => req'[r].resp =
                ClearResponse(req'[r].sid,
                              IF conversation_histories[req'[r].sid] = 0
                                THEN "not_found_or_already_cleared" ELSE "cleared")
        /\ LastWasCleared(r)' => conversation_histories'[req'[r].sid] = 0
        /\ (req[r].pc \in {"idle", "woken"} /\ req'[r].pc = "agent")
            => req'[r].input =
                Append(History(req'[r].sid), HistItem("user", <<"user_message">>, r))]_vars


\* Request r, a /clear, returns in this step.
ClearEnds(r) == req[r].pc # "done" /\ req'[r].pc = "done" /\ req'[r].kind = "clear"
\* The store holds for session s what a /clear left: a /clear of s has
\* returned and s has no stored history.
AfterClear(s) ==
    /\ conversation_histories[s] = 0
    /\ \E q \in Requests : req[q].kind = "clear" /\ req[q].pc = "done" /\ req[q].sid = s

\* C12 (as stated): /clear never raises, and a /clear issued on the store a
\* /clear of the same session left changes neither the histories nor the
\* lock table.
C12_ClearIdempotentOnStore ==
    [][\A r \in Requests :
        ClearEnds(r) =>
            /\ req'[r].resp.code = 200
            /\ AfterClear(req'[r].sid) =>
                /\ conversation_histories' = conversation_histories
                /\ session_locks' = session_locks]_vars

\* C12 (amended): /clear never raises and leaves the session without stored
\* history; issued on the store a /clear of the same session left, it changes
\* no history and no lock entry of another session, and the session's own lock
\* entry only when the first /clear had deleted it (a new lock is entered).
C12_ClearIdempotentOnHistories ==
    [][\A r \in Requests :
        ClearEnds(r) =>
            /\ req'[r].resp.code = 200
            /\ conversation_histories'[req'[r].sid] = 0
            /\ AfterClear(req'[r].sid) =>
                /\ conversation_histories' = conversation_histories
                /\ \A s \in Sessions :
                     (s # req'[r].sid \/ session_locks[s] # 0)
                        => session_locks'[s] = session_locks[s]]_vars

\* Two /clear calls of one session have returned, the first removed a history,
\* the second found none and left a lock entry.
C12_Witness ==
    \E q, r \in Requests :
        /\ q < r /\ req[q].sid = req[r].sid
        /\ req[q].kind = "clear" /\ req[q].resp.status = "cleared"
        /\ req[r].kind = "clear" /\ req[r].resp.status = "not_found_or_already_cleared"
        /\ conversation_histories[req[r].sid] = 0 /\ session_locks[req[r].sid] # 0


\* C13: a step of a request of session A changes the stored history of no
\* other session, and a request that has to wait for its lock waits behind a
\* request of its own session.
C13_SessionsIndependent ==
    [][\A r \in Requests :
        req'[r] # req[r] =>
            /\ \A b \in Sessions :
                 b # req'[r].sid =>
                    /\ conversation_histories'[b] = conversation_histories[b]
                    /\ History(b)' = History(b)
            /\ req'[r].pc = "waiting" =>
                 \E q \in Requests :
                    /\ q # r /\ req[q].sid = req'[r].sid
                    /\ UsesLock(req[q]) /\ req[q].lk = req'[r].lk]_vars

\* A turn of one session is suspended in its critical section, and a turn of
\* another session that arrived later has run to completion and stored its
\* history.
C13_Witness ==
    \E q, r \in Requests :
        /\ q < r /\ req[q].sid # req[r].sid
        /\ req[q].pc = "agent"
        /\ Responded(r) /\ Len(History(req[r].sid)) = 2
        /\ Len(History(req[q].sid)) = 1


\* Request r has ended: a response or a failure.
HasEnded(r) == req[r].pc \in {"done", "failed"}

\* C14: every started /chat turn ends, with a response or a failure, and its
\* end leaves the lock it held unlocked; every request waiting for a session
\* lock is processed in the end.  The claim's assumption is the premise: every
\* agent run returns or raises, so that no request stays in its run for ever.
C14_TurnsEndAndWaitersRun ==
    /\ [][\A r \in Requests :
            (InCritical(req[r]) /\ HasEnded(r)') => ~locks'[req[r].lk].locked]_vars
    /\ (\A q \in Requests : []<>(req[q].pc # "agent")) =>
          /\ \A r \in Requests : (req[r].pc = "agent") ~> HasEnded(r)
          /\ \A r \in Requests : (req[r].pc = "waiting") ~> HasEnded(r)

\* A /chat turn that failed and a request that had queued behind it (a
\* /chat, or a /clear that found the failed turn's history) have both ended.
C14_Witness ==
    \E q, r \in Requests :
        /\ q < r /\ req[q].sid = req[r].sid
        /\ req[q].kind = "chat" /\ req[q].pc = "failed"
        /\ HasEnded(r) /\ req[r].resp.code = 200
        /\ req[r].resp.status \in {"ok", "cleared"}


\* The turn of request r extracted URLs and has ended.
FanOutTurnEnded(r) == req[r].kind = "chat" /\ req[r].urls # <<>> /\ HasEnded(r)

\* C15: a turn that extracted URLs and whose analyses all succeeded ran the
\* synthesizer, and with a profile returned it ends with status
\* profile_generated and the summary as reply; a turn whose analyses all
\* failed ends with status analysis_failed and the clarification message.
C15_StatusOfFanOutTurn ==
    \A r \in Requests :
        FanOutTurnEnded(r) =>
            /\ (\A i \in 1..Len(req[r].results) : IsSuccess(req[r].results[i]))
                => /\ req[r].synthCalls = 1
                   /\ req[r].synthOut = "profile" =>
                        /\ req[r].pc = "done"
                        /\ req[r].resp =
                             ChatResponse(req[r].sid, <<SummaryForUser>>, "profile_generated")
            /\ (\A i \in 1..Len(req[r].results) : ~IsSuccess(req[r].results[i]))
                => /\ req[r].pc = "done"
                   /\ req[r].resp =
                        ChatResponse(req[r].sid, <<NoImagesMessage>>, "analysis_failed")

\* Two URLs were extracted, both analyses succeeded and the synthesizer
\* returned a profile.
C15_Witness ==
    \E r \in Requests :
        /\ FanOutTurnEnded(r) /\ Len(req[r].urls) = 2 /\ req[r].visionCalls = 2
        /\ \A i \in 1..2 : IsSuccess(req[r].results[i])
        /\ req[r].synthOut = "profile" /\ req[r].resp.status = "profile_generated"


\* The agent run of request r called the tool, and the last call returned an
\* empty list.
ExtractedNothing(rec) == rec.tools # <<>> /\ rec.tools[Len(rec.tools)].output = <<>>

\* C16: a turn whose extraction returned an empty list ends at once, without
\* a call of the vision agent or of the synthesizer, with status
\* no_urls_found and the "no image URLs" message as reply and as the assistant
\* entry that ends the stored history.
C16_NoUrlsNoCollaborators ==
    [][\A r \in Requests :
        (req[r].pc = "agent" /\ req'[r].pc # "agent" /\ ExtractedNothing(req'[r]))
        => /\ req'[r].pc = "done"
           /\ req'[r].visionCalls = 0 /\ req'[r].synthCalls = 0
           /\ req'[r].resp = ChatResponse(req[r].sid, <<NoUrlsFoundMsg>>, "no_urls_found")
           /\ SubSeq(History(req[r].sid)', 1, Len(req[r].input)) = req[r].input
           /\ History(req[r].sid)'[Len(History(req[r].sid)')] =
                HistItem("assistant", <<NoUrlsFoundMsg>>, r)]_vars

\* The agent replied with a text and called the tool, which returned no URL.
C16_Witness ==
    \E r \in Requests :
        /\ req[r].pc = "done" /\ ExtractedNothing(req[r]) /\ req[r].added = 4
        /\ req[r].resp.status = "no_urls_found"


\* C17: a turn with at least one successful analysis calls the synthesizer
\* exactly once, and the synthesizer's input is the successful analyses, in
\* the order of their URLs, and none of the failed ones.
C17_SynthesisOnceOnSuccesses ==
    \A r \in Requests :
        (FanOutOver(req[r]) /\ \E i \in 1..Len(req[r].results) : IsSuccess(req[r].results[i]))
        => /\ req[r].synthCalls = 1
           /\ req[r].synthInput = SelectSeq(req[r].results, IsSuccess)
           /\ \A k \in 1..Len(req[r].synthInput) :
                /\ IsSuccess(req[r].synthInput[k])
                /\ k > 1 => req[r].synthInput[k - 1].src < req[r].synthInput[k].src

\* The synthesizer was called on the one successful analysis of two, the
\* second URL's, the first having failed.
C17_Witness ==
    \E r \in Requests :
        /\ FanOutOver(req[r]) /\ Len(req[r].urls) = 2 /\ req[r].synthCalls = 1
        /\ ~IsSuccess(req[r].results[1]) /\ IsSuccess(req[r].results[2])
        /\ req[r].synthInput = <<req[r].results[2]>>


\* The status vocabulary of /chat responses.
StatusVocabulary ==
    {"ok", "analyzing", "synthesizing", "profile_generated", "analysis_failed",
     "synthesis_failed", "no_urls_found", "agent_error"}

\* C18: every response /chat returns has a status of the vocabulary and the
\* session id of its request.
C18_ResponseStatusAndSession ==
    \A r \in Requests :
        (req[r].kind = "chat" /\ req[r].pc = "done")
        => /\ req[r].resp.code = 200
           /\ req[r].resp.status \in StatusVocabulary
           /\ req[r].resp.session_id = req[r].sid

\* A turn for the second session id went through fan-out and synthesis and
\* returned its response.
C18_Witness ==
    \E r \in Requests :
        /\ req[r].kind = "chat" /\ req[r].pc = "done" /\ req[r].sid = 2
        /\ req[r].synthCalls = 1 /\ req[r].resp.session_id = 2
        /\ req[r].resp.status \in {"profile_generated", "synthesis_failed"}


\* The last tool call of the turn was given a source URL the tool cannot use:
\* one that fails is_valid_url or is neither http nor https, or a page whose
\* fetch or parsing failed.
UnusableSource(rec) ==
    /\ rec.tools # <<>>
    /\ LET t == rec.tools[Len(rec.tools)]
       IN /\ "src" \in DOMAIN t
          /\ \/ ~is_valid_url(t.src)
             \/ t.src.scheme \notin {"http", "https"}
             \/ ~HasImageExt(t.src) /\ t.fetch \in FetchFailures

\* C19: for a source URL it cannot use the tool returns the empty list, and
\* the turn ends with a reply (the "no image URLs" message), not with a
\* server error, and without a call of the vision agent.
C19_BadSourceIsNoHardError ==
    \A r \in Requests :
        UnusableSource(req[r])
        => /\ req[r].tools[Len(req[r].tools)].output = <<>>
           /\ req[r].pc = "done"
           /\ req[r].resp = [code |-> 200, session_id |-> req[r].sid,
                             response |-> <<NoUrlsFoundMsg>>, status |-> "no_urls_found"]
           /\ req[r].visionCalls = 0

\* A turn whose tool call was given a valid ftp URL of an image has ended.
C19_Witness ==
    \E r \in Requests :
        /\ UnusableSource(req[r]) /\ req[r].tools[1].src = FtpUrl
        /\ req[r].pc = "done"


\* C20: the shared client session goes from absent (the name unbound, then
\* bound to None by the module body) to open once and from open to closed once, and a /chat request that arrives while it is absent
\* is rejected with a server error, the histories and the locks untouched.
C20_ClientOnceAndRejectBefore ==
    [][/\ http_session' # http_session =>
            \/ http_session = "unbound" /\ http_session' = "none"
            \/ http_session = "none" /\ http_session' = "open"
            \/ http_session = "open" /\ http_session' = "closed"
       /\ \A r \in Requests :
            (req[r].pc = "idle" /\ req'[r].kind = "chat" /\ http_session = "none")
            => /\ req'[r].pc = "rejected"
               /\ req'[r].resp = HTTPException500
               /\ UNCHANGED <<conversation_histories, session_locks, lists, locks>>]_vars

\* A /chat was rejected before startup for a session that has neither
\* history nor lock, a later /chat of another session was served, and the
\* client session has been closed.
C20_Witness ==
    \E q, r \in Requests :
        /\ req[q].kind = "chat" /\ req[q].pc = "rejected"
        /\ conversation_histories[req[q].sid] = 0 /\ session_locks[req[q].sid] = 0
        /\ Responded(r) /\ q < r
        /\ http_session = "closed"


\* A call of one of the two get_instagram_images_urls has returned.
FetchReturned ==
    /\ ig.pc = "fetched"
    /\ ig.fn \in {"client.get_instagram_images_urls", "extractor.get_instagram_images_urls"}

\* C21: get_instagram_images_urls(username, imgs_limit) returns a list of at
\* most imgs_limit image URLs, in the Apify-backed client and in the extractor
\* module.
C21_AtMostLimitUrls == FetchReturned => Len(ig.urls) <= ig.limit


\* describe_instagram_images, called directly or by the tool, has extracted
\* the username.
Described == ig.fn \in {"describe_instagram_images", "describe_instagram_profile"}
HasSlash(str) == \E k \in 1..Len(str) : str[k] = Slash

\* C22: for an input [scheme://][www.]instagram.com/<name>[/] the username
\* used for the image fetch and reported in the result is <name>, and an
\* input without "/" is used unchanged.
C22_UsernameFromProfileUrl ==
    Described =>
        /\ \A sc \in {"", "https:", "http:"}, h \in {"www.instagram.com", "instagram.com"},
              n \in Names, sl \in BOOLEAN :
                ig.input = ProfileUrl(sc, h, n, sl) =>
                    /\ ig.username = <<n>>
                    /\ ig.pc = "returned" => ig.result.username = <<n>>
        /\ ~HasSlash(ig.input) => ig.username = ig.input


\* C23: describe_instagram_images never raises: it returns a result whose
\* error is non-empty exactly when the analysis failed, and the tool
\* describe_instagram_profile hands a URLAnalysisResult back.
C23_DescribeNeverRaises ==
    Described =>
        /\ ig.pc # "raised"
        /\ ig.pc = "returned" =>
            /\ ig.result.username = ig.username
            /\ Truthy(ig.result.error) <=> ig.result.image_descriptions # "markdown"
            /\ ig.fn = "describe_instagram_profile" =>
                    ig.tool = URLAnalysisResult(ig.input, ig.result)


\* Request r started while request q of the same session was suspended in
\* its agent run.
Overlapped(q, r) ==
    /\ conv[q].kind = "post" /\ conv[r].kind = "post"
    /\ conv[q].sid = conv[r].sid /\ q \in conv[r].during
\* items holds the user message of request r and every output of its run.
Contributed(r, items) ==
    /\ \E k \in 1..Len(items) : items[k] = HistItem("user", <<"message">>, r)
    /\ \A j \in 1..Len(conv[r].new_items) :
         \E k \in 1..Len(items) :
            items[k] = HistItem(conv[r].new_items[j].type, <<conv[r].new_items[j].agent>>, r)

\* C24: when two POST /conversation requests of one session overlap and both
\* succeed (no other request of the session), the stored input_items hold the
\* user messages and the agent outputs of both.
C24_BothContributionsStored ==
    \A q, r \in ConvRequests :
        (/\ Overlapped(q, r) /\ conv[q].pc = "done" /\ conv[r].pc = "done"
         /\ \A x \in ConvRequests \ {q, r} : conv[x].sid # conv[r].sid)
        => /\ Contributed(q, conversations[conv[r].sid].input_items)
           /\ Contributed(r, conversations[conv[r].sid].input_items)


\* Request r, a POST /conversation, ends with success in this step.
TurnSucceeds(r) == conv[r].pc = "run" /\ conv'[r].pc = "done"

\* C25: a session starts with TriageAgent; its stored current agent changes
\* only at the end of a successful turn, to the agent that finished the run;
\* and a session whose current agent is PlanningAgent keeps it until the
\* session is deleted.
C25_CurrentAgentOfSession ==
    [][/\ \A r \in ConvRequests :
            (conv[r].pc = "idle" /\ conv'[r].kind = "post" /\ conv'[r].created)
            => conv'[r].current_agent = "TriageAgent"
       /\ \A s \in Sessions :
            /\ conversations'[s].current_agent # conversations[s].current_agent =>
                \/ conversations[s] = NoConversation
                     /\ conversations'[s].current_agent = "TriageAgent"
                \/ conversations'[s] = NoConversation
                \/ \E r \in ConvRequests :
                     /\ TurnSucceeds(r) /\ conv[r].sid = s
                     /\ conversations'[s].current_agent = conv'[r].last_agent
            /\ conversations[s].current_agent = "PlanningAgent" =>
                \/ conversations'[s].current_agent = "PlanningAgent"
                \/ \E d \in ConvRequests :
                     conv[d].pc = "idle" /\ conv'[d].pc = "deleted" /\ conv'[d].sid = s]_vars


\* The last request that arrived for session s is a DELETE that removed it.
DeletedLast(s) ==
    \E d \in ConvRequests :
        /\ conv[d].pc = "deleted" /\ conv[d].sid = s
        /\ \A x \in ConvRequests : x > d => conv[x].sid # s

\* C26: DELETE of an unknown id gives 404 and leaves the store unchanged;
\* of a known id it removes that session and no other; and the POST that
\* follows it for the same id starts from TriageAgent with input items
\* holding only its user message.
C26_DeleteThenFreshSession ==
    [][\A r \in ConvRequests :
        /\ (conv[r].pc = "idle" /\ conv'[r].pc = "not_found")
            => /\ conv'[r].code = 404
               /\ conversations[conv'[r].sid] = NoConversation
               /\ conversations' = conversations
        /\ (conv[r].pc = "idle" /\ conv'[r].pc = "deleted")
            => /\ conv'[r].code = 200
               /\ conversations[conv'[r].sid] # NoConversation
               /\ conversations' = [conversations EXCEPT ![conv'[r].sid] = NoConversation]
        /\ (conv[r].pc = "idle" /\ conv'[r].kind = "post" /\ DeletedLast(conv'[r].sid))
            => /\ conv'[r].current_agent = "TriageAgent"
               /\ conv'[r].input = <<HistItem("user", <<"message">>, r)>>]_vars


\* The analyses that have been returned, of a chat turn and of process_urls.
Returned(results) == {i \in 1..Len(results) : results[i] # Pending}

\* C27: a result of analyze_single_url (either version) with a non-empty
\* error has is_image false; in url_data_extractor.py is_image is true exactly
\* when error is None; so the chat turn counts a result as successful exactly
\* when its is_image flag is true.
C27_ErrorMeansNotImage ==
    /\ \A r \in Requests :
        /\ \A i \in Returned(req[r].results) :
             Truthy(req[r].results[i].error) => ~req[r].results[i].is_image
        /\ Returned(req[r].results) = 1..Len(req[r].results) =>
             SuccessfulAnalyses(req[r].results)
                = SelectSeq(req[r].results, LAMBDA res : res.is_image)
    /\ \A i \in Returned(pu.results) :
        /\ Truthy(pu.results[i].error) => ~pu.results[i].is_image
        /\ pu.results[i].is_image <=> pu.results[i].error = None

\* A turn has ended whose vision agent reported an error for one URL (the
\* result is no image) and analysed the other with success, and only the
\* second went to the synthesizer.
C27_Witness ==
    \E r \in Requests :
        /\ req[r].pc = "done" /\ Len(req[r].results) = 2
        /\ req[r].outs = <<"output", "output">>
        /\ req[r].results[1] = ImageAnalysis(FALSE, "model_error", 1)
        /\ req[r].results[2].is_image
        /\ req[r].synthInput = <<req[r].results[2]>>


\* The marks of a task whose agent run was started: it is running, or it
\* ended by raising, without output, or with an output.
RunStarted == {"running", "raise", "no_output", "output"}

\* C28: the vision agent is run only for a URL that passed validation: for a
\* URL that fails is_valid_url (both versions), and in url_data_extractor.py
\* for one whose HEAD response is no image, it is not run, and the result is a
\* failure with is_image false and the cause as its error.
C28_VisionOnlyAfterValidation ==
    /\ \A r \in Requests :
        /\ \A i \in 1..Len(req[r].urls) :
             ~is_valid_url(req[r].urls[i]) =>
                /\ req[r].outs[i] \in {"pending", "not_run"}
                /\ i \in Returned(req[r].results) =>
                     req[r].results[i] = ImageAnalysis(FALSE, "Invalid URL format", i)
        /\ req[r].visionCalls =
             Cardinality({i \in 1..Len(req[r].urls) : req[r].outs[i] \in RunStarted})
    /\ \A i \in 1..Len(pu.urls) :
        /\ ~is_valid_url(pu.urls[i]) =>
             /\ pu.outs[i] \in {"pending", "not_run"}
             /\ i \in Returned(pu.results) =>
                  pu.results[i] = ImageAnalysis(FALSE, "Invalid URL format", i)
        /\ pu.outs[i] = "other" =>
             pu.results[i] = ImageAnalysis(FALSE, "URL content type is not an image", i)
        /\ pu.outs[i] \in Exceptions =>
             ~pu.results[i].is_image /\ Truthy(pu.results[i].error)
    /\ pu.visionCalls = Cardinality({i \in 1..Len(pu.urls) : pu.outs[i] \in RunStarted})
    /\ pu.headCalls =
         Cardinality({i \in 1..Len(pu.urls) : pu.outs[i] \notin {"pending", "not_run"}})

\* process_urls has returned for an invalid URL and a valid one whose HEAD
\* response was no image: one HEAD request, no run of the vision agent.
C28_Witness ==
    /\ pu.pc = "done" /\ pu.urls = <<BadUrl, ImgUrl>>
    /\ pu.outs = <<"not_run", "other">>
    /\ pu.headCalls = 1 /\ pu.visionCalls = 0
    /\ \A i \in 1..2 : ~pu.out[i].is_image /\ Truthy(pu.out[i].error)


\* C29: no response of /chat has status analyzing or synthesizing; when the
\* extraction ran in the turn the status is profile_generated,
\* synthesis_failed, analysis_failed or no_urls_found, and otherwise ok or
\* agent_error.
C29_NoIntermediateStatus ==
    \A r \in Requests :
        (req[r].kind = "chat" /\ req[r].resp.code = 200) =>
            /\ req[r].resp.status \notin {"analyzing", "synthesizing"}
            /\ req[r].tools # <<>> =>
                 req[r].resp.status \in {"profile_generated", "synthesis_failed",
                                         "analysis_failed", "no_urls_found"}
            /\ req[r].tools = <<>> => req[r].resp.status \in {"ok", "agent_error"}

\* A turn went through the fan-out and the synthesizer run, which gave no
\* output, and has answered with synthesis_failed.
C29_Witness ==
    \E r \in Requests :
        /\ req[r].kind = "chat" /\ req[r].pc = "done"
        /\ req[r].tools # <<>> /\ req[r].visionCalls > 0 /\ req[r].synthCalls = 1
        /\ req[r].synthOut = "no_output"
        /\ req[r].resp.status = "synthesis_failed"


\* Request r, a /clear, returns in this step without having found a history.
ClearFindsNothing(r) ==
    ClearEnds(r) /\ req'[r].resp.status = "not_found_or_already_cleared"

\* C30 (as stated): a /clear that finds no history leaves histories and lock
\* table unchanged, and every id in the lock table has a stored history.
C30_ClearNotFoundLeavesNoLock ==
    [][/\ \A r \in Requests :
            ClearFindsNothing(r) =>
                /\ conversation_histories' = conversation_histories
                /\ session_locks' = session_locks
       /\ \A s \in Sessions : session_locks'[s] # 0 => conversation_histories'[s] # 0]_vars

\* C30 (amended): a /clear that finds no history creates no history entry and
\* changes no lock entry of another session; the lock entry it looked up
\* stays: when the id had none on arrival a new lock is entered for it.
C30_ClearNotFoundKeepsLockEntry ==
    [][\A r \in Requests :
        ClearFindsNothing(r) =>
            /\ conversation_histories' = conversation_histories
            /\ conversation_histories'[req'[r].sid] = 0
            /\ \A s \in Sessions :
                 (s # req'[r].sid \/ session_locks[s] # 0 \/ req[r].pc = "woken")
                    => session_locks'[s] = session_locks[s]
            /\ req[r].pc = "idle" => session_locks'[req'[r].sid] # 0]_vars

\* The only request so far is a /clear of a session that never had a
\* history: it answered not_found_or_already_cleared, and the session now has
\* a lock entry and no history.
C30_Witness ==
    /\ nreq = 1 /\ req[1].kind = "clear" /\ req[1].pc = "done"
    /\ req[1].resp.status = "not_found_or_already_cleared"
    /\ session_locks[req[1].sid] # 0 /\ conversation_histories[req[1].sid] = 0
    /\ \A s \in Sessions : s # req[1].sid => session_locks[s] = 0

====
